---- MODULE Spec2Model ----
(***************************************************************************)
(* A model of python/tutorials/matrix_factorization.ipynb: the Batch       *)
(* container, the DataIter loader / batch iterator, max_id, RMSE, the      *)
(* three network builders and the three training cells.                    *)
(*                                                                         *)
(* A file is a sequence of lines, a line is a sequence of one-character    *)
(* strings (as file(fname) yields it, newline included).  Ratings are kept *)
(* as integers: every float() argument the model draws is an integer       *)
(* literal.  The notebook runs on Python 2: len(..) / batch_size is floor  *)
(* division of two ints.                                                   *)
(***************************************************************************)
EXTENDS Integers, Sequences, FiniteSets, TLC

VARIABLES
    fs,             \* the files on disk: file name -> sequence of lines
    status,         \* outcome of the last DataIter construction
    batch_size,     \* DataIter.batch_size
    data,           \* DataIter.data
    provide_data,   \* DataIter.provide_data
    provide_label,  \* DataIter.provide_label
    made,           \* the last DataIter(fname, B) call and the fields it left
    gen,            \* the generator made by DataIter.__iter__
    yielded,        \* the batches that generator has yielded so far
    hist,           \* what has been called on the DataIter: see NoHistory
    max_user,       \* notebook-level max_user (0: not assigned yet)
    max_item,       \* notebook-level max_item (0: not assigned yet)
    max_id_status,  \* outcome of the max_id cell
    defined,        \* the functions the executed cells have defined
    built,          \* every network a builder call has returned, per call
    trained,        \* the calls of train made so far: cell and network
    rmse_in,        \* the arguments of the last RMSE call
    rmse_out        \* what the last RMSE call returned or raised

vars == <<fs, status, batch_size, data, provide_data, provide_label, made,
          gen, yielded, hist, max_user, max_item, max_id_status, defined, built,
          trained, rmse_in, rmse_out>>

iter_vars == <<status, batch_size, data, provide_data, provide_label, made>>
gen_vars == <<gen, yielded, hist>>
nb_vars == <<max_user, max_item, max_id_status, defined, built, trained>>
rmse_vars == <<rmse_in, rmse_out>>

----------------------------------------------------------------------------
(* Bounds of the model. *)

\* most lines of u.data in the loader specification
MaxLoadLines == 2
\* most lines of u.data in the iterator specification
MaxIterLines == 4
\* largest batch size drawn in the loader specification
MaxLoadBatch == 1
\* largest batch size drawn in the iterator specification
MaxBatch == 3
\* longest label vector handed to RMSE
MaxLabel == 2

----------------------------------------------------------------------------
(* Python's string functions, on sequences of one-character strings. *)

\* the characters str.strip() removes
Whitespace == {" ", "\t", "\n", "\r"}

DigitChars == {"0", "1", "2", "3", "4", "5", "6", "7", "8", "9"}

DigitVal(c) ==
    CASE c = "0" -> 0 [] c = "1" -> 1 [] c = "2" -> 2 [] c = "3" -> 3
      [] c = "4" -> 4 [] c = "5" -> 5 [] c = "6" -> 6 [] c = "7" -> 7
      [] c = "8" -> 8 [] c = "9" -> 9

RECURSIVE lstrip(_)
lstrip(s) ==
    IF s # <<>> /\ Head(s) \in Whitespace THEN lstrip(Tail(s)) ELSE s

RECURSIVE rstrip(_)
rstrip(s) ==
    IF s # <<>> /\ s[Len(s)] \in Whitespace
    THEN rstrip(SubSeq(s, 1, Len(s) - 1))
    ELSE s

\* line.strip(): leading and trailing whitespace removed, tabs included
strip(s) == rstrip(lstrip(s))

\* s.split(sep): always at least one field; empty fields are kept
RECURSIVE split(_, _)
split(s, sep) ==
    IF \E i \in 1..Len(s) : s[i] = sep
    THEN LET i == CHOOSE i \in 1..Len(s) :
                     s[i] = sep /\ \A j \in 1..(i - 1) : s[j] # sep
         IN  <<SubSeq(s, 1, i - 1)>> \o split(SubSeq(s, i + 1, Len(s)), sep)
    ELSE <<s>>

\* the digits of an integer literal: whitespace around it and one sign dropped
Unsigned(s) ==
    LET t == strip(s)
    IN  IF t # <<>> /\ Head(t) \in {"-", "+"} THEN Tail(t) ELSE t

\* whether int(s) returns; otherwise it raises ValueError
IsInt(s) ==
    LET d == Unsigned(s)
    IN  d # <<>> /\ \A i \in 1..Len(d) : d[i] \in DigitChars

RECURSIVE DecValue(_)
DecValue(d) ==
    IF d = <<>> THEN 0
    ELSE 10 * DecValue(SubSeq(d, 1, Len(d) - 1)) + DigitVal(d[Len(d)])

\* int(s), for s with IsInt(s)
int(s) ==
    LET t == strip(s)
    IN  IF Head(t) = "-" THEN 0 - DecValue(Unsigned(s)) ELSE DecValue(Unsigned(s))

\* whether float(s) returns, over the characters the model draws (digits,
\* signs, letters, whitespace): exactly the integer literals
IsFloat(s) == IsInt(s)

\* float(s), for s with IsFloat(s): an integer-valued rating
float(s) == int(s)

max(a, b) == IF a >= b THEN a ELSE b

----------------------------------------------------------------------------
(* The files.  u.data is the whole data set; u1.base and u1.test are the  *)
(* two parts of a split of its lines, as in the ml-100k archive.          *)

FileNames == {"u.data", "u1.base", "u1.test"}

\* a name file() does not find
NoFile == "nofile"

\* the fields joined by tabs
RECURSIVE Join(_)
Join(fields) ==
    IF Len(fields) = 0 THEN <<>>
    ELSE IF Len(fields) = 1 THEN fields[1]
    ELSE fields[1] \o <<"\t">> \o Join(Tail(fields))

\* a line of the file: its fields, tab-separated, and the newline
Line(fields) == Join(fields) \o <<"\n">>

\* the lines the loader specification draws: well-formed rows, rows with a
\* wrong number of fields, and rows with a field that is not a number
LoadLines ==
    { Line(<< <<"1">>, <<"1">>, <<"3">>, <<"8">> >>),
      Line(<< <<" ", "1", "2">>, <<" ", "3", " ">>, <<"1">>, <<"8">> >>),
      Line(<< <<"-", "1">>, <<"2">>, <<"2">>, <<"8">> >>),
      Line(<< <<"1">>, <<"2">>, <<"3">>, <<>> >>),
      Line(<< <<>>, <<"2">>, <<"1">>, <<"4">>, <<"8">> >>),
      Line(<< <<"1">>, <<"2">>, <<"3">>, <<"8">>, <<"9">> >>),
      Line(<< <<>> >>),
      Line(<< <<"x">>, <<"1">>, <<"1">>, <<"8">> >>),
      Line(<< <<"1">>, <<"1">>, <<"x">>, <<"8">> >>) }

\* the lines the iterator specification draws: two distinct ratings and a
\* row the loader skips
IterLines ==
    { Line(<< <<"1">>, <<"1">>, <<"3">>, <<"8">> >>),
      Line(<< <<"2">>, <<"1">>, <<"4">>, <<"8">> >>),
      Line(<< <<"1">>, <<"2">>, <<"3">> >>) }

\* every file of at most n lines drawn from L
Files(L, n) == UNION { [1..k -> L] : k \in 0..n }

\* the lines of f the mask sends to side b, in file order
RECURSIVE Part(_, _, _)
Part(f, mask, b) ==
    IF f = <<>> THEN <<>>
    ELSE LET n    == Len(f)
             rest == Part(SubSeq(f, 1, n - 1), mask, b)
         IN  IF mask[n] = b THEN Append(rest, f[n]) ELSE rest

\* the disks on which u.data has at most n lines of L
Disks(L, n) ==
    UNION { { [name \in FileNames |->
                  CASE name = "u.data"  -> f
                    [] name = "u1.base" -> Part(f, mask, TRUE)
                    [] name = "u1.test" -> Part(f, mask, FALSE)] :
              mask \in [1..Len(f) -> BOOLEAN] } :
            f \in Files(L, n) }

----------------------------------------------------------------------------
(* DataIter.__init__ and max_id: the two scans of a file. *)

\* line 90 / 177: tks = line.strip().split('\t')
Tokens(line) == split(strip(line), "\t")

\* a loader that only rejects rows that are too short
KeepLineAtLeast(tks) == Len(tks) >= 4

\* line 91 / 178: the row is read unless len(tks) != 4
KeepLine(tks) == Len(tks) = 4

\* whether line 93 returns: int(tks[0]), int(tks[1]), float(tks[2])
TupleParses(tks) == IsInt(tks[1]) /\ IsInt(tks[2]) /\ IsFloat(tks[3])

\* line 93: the tuple appended to self.data
ParseTuple(tks) == <<int(tks[1]), int(tks[2]), float(tks[3])>>

\* lines 88-93: the loop of __init__ over the lines left, acc being self.data
RECURSIVE ReadData(_, _)
ReadData(lines, acc) ==
    IF lines = <<>> THEN [raised |-> "no", data |-> acc]
    ELSE LET tks == Tokens(Head(lines))
         IN  IF ~KeepLine(tks) THEN ReadData(Tail(lines), acc)
             ELSE IF ~TupleParses(tks)
                  THEN [raised |-> "ValueError", data |-> acc]
                  ELSE ReadData(Tail(lines), Append(acc, ParseTuple(tks)))

\* lines 94-95: the declared names and shapes
ProvideData(B) == << <<"user", <<B>> >>, <<"item", <<B>> >> >>
ProvideLabel(B) == << <<"score", <<B>> >> >>

\* lines 85-95: the fields DataIter(fname, B) leaves.  A constructor that
\* raises leaves the fields it had set.
Constructed(fname, B) ==
    IF fname \notin DOMAIN fs
    THEN [status |-> "IOError", batch_size |-> B, data |-> <<>>,
          provide_data |-> <<>>, provide_label |-> <<>>]
    ELSE LET r == ReadData(fs[fname], <<>>)
         IN  IF r.raised = "no"
             THEN [status |-> "ready", batch_size |-> B, data |-> r.data,
                   provide_data |-> ProvideData(B),
                   provide_label |-> ProvideLabel(B)]
             ELSE [status |-> r.raised, batch_size |-> B, data |-> r.data,
                   provide_data |-> <<>>, provide_label |-> <<>>]

\* the calls made on a new DataIter: reset was never called (ever_reset),
\* nor since the generator was made (clean); there is no finished pass
\* since whose start reset was not called (prev_valid, its batches in prev)
NoHistory ==
    [ever_reset |-> FALSE, clean |-> TRUE, prev_valid |-> FALSE, prev |-> <<>>]

\* the DataIter under observation becomes the instance with the fields c,
\* made from fname; a new instance has no generator yet
Observe(fname, c) ==
    /\ status' = c.status
    /\ batch_size' = c.batch_size
    /\ data' = c.data
    /\ provide_data' = c.provide_data
    /\ provide_label' = c.provide_label
    /\ made' = [fname |-> fname, batch_size |-> c.batch_size, data |-> c.data,
                provide_data |-> c.provide_data,
                provide_label |-> c.provide_label]
    /\ gen' = [state |-> "none", k |-> 0, n |-> 0]
    /\ yielded' = <<>>
    /\ hist' = NoHistory

\* lines 85-95: a call DataIter(fname, B)
DataIterInit(fname, B) ==
    /\ Observe(fname, Constructed(fname, B))
    /\ UNCHANGED <<fs, nb_vars, rmse_vars>>

\* lines 143-144: get_data(batch_size) makes the iterator of u1.base, then
\* that of u1.test; the first is the one observed, and an error of the
\* second ends the call all the same
get_data(B) ==
    LET tr == Constructed("u1.base", B)
        te == Constructed("u1.test", B)
    IN  IF tr.status = "ready" /\ te.status # "ready"
        THEN [tr EXCEPT !.status = te.status]
        ELSE tr

\* whether lines 180-181 return: int(tks[0]), int(tks[1])
IdsParse(tks) == IsInt(tks[1]) /\ IsInt(tks[2])

\* a max_id that returns the largest ids themselves
MaxIdReturnNoIncrement(mu, mi) == [raised |-> "no", mu |-> mu, mi |-> mi]

\* line 182: return mu + 1, mi + 1
MaxIdReturn(mu, mi) == [raised |-> "no", mu |-> mu + 1, mi |-> mi + 1]

\* lines 174-182: max_id's loop over the lines left, then its return
RECURSIVE MaxIdScan(_, _, _)
MaxIdScan(lines, mu, mi) ==
    IF lines = <<>> THEN MaxIdReturn(mu, mi)
    ELSE LET tks == Tokens(Head(lines))
         IN  IF ~KeepLine(tks) THEN MaxIdScan(Tail(lines), mu, mi)
             ELSE IF ~IdsParse(tks)
                  THEN [raised |-> "ValueError", mu |-> 0, mi |-> 0]
                  ELSE MaxIdScan(Tail(lines), max(mu, int(tks[1])),
                                 max(mi, int(tks[2])))

\* lines 173-182: max_id(fname)
max_id(fname) ==
    IF fname \notin DOMAIN fs
    THEN [raised |-> "IOError", mu |-> 0, mi |-> 0]
    ELSE MaxIdScan(fs[fname], 0, 0)

\* lines 173-184: the cell that defines max_id and assigns
\* max_user, max_item = max_id('./ml-100k/u.data')
MaxIdCell ==
    LET r == max_id("u.data")
    IN  /\ defined' = defined \cup {"max_id"}
        /\ max_id_status' = IF r.raised = "no" THEN "ok" ELSE r.raised
        /\ max_user' = IF r.raised = "no" THEN r.mu ELSE max_user
        /\ max_item' = IF r.raised = "no" THEN r.mi ELSE max_item
        /\ UNCHANGED <<fs, iter_vars, gen_vars, built, trained, rmse_vars>>

----------------------------------------------------------------------------
(* Batch and the generator of DataIter.__iter__. *)

\* lines 70-74: Batch.__init__
Batch(data_names, d, label_names, l) ==
    [data |-> d, label |-> l, data_names |-> data_names,
     label_names |-> label_names]

\* x.shape of mx.nd.array(list): one axis, as long as the list
shape(x) == <<Len(x)>>

\* zip(a, b): as long as the shorter of the two
zip(a, b) ==
    [i \in 1..(IF Len(a) <= Len(b) THEN Len(a) ELSE Len(b)) |-> <<a[i], b[i]>>]

\* lines 76-78: Batch.provide_data
BatchProvideData(b) ==
    LET z == zip(b.data_names, b.data)
    IN  [i \in 1..Len(z) |-> <<z[i][1], shape(z[i][2])>>]

\* lines 80-82: Batch.provide_label
BatchProvideLabel(b) ==
    LET z == zip(b.label_names, b.label)
    IN  [i \in 1..Len(z) |-> <<z[i][1], shape(z[i][2])>>]

\* a batch count that rounds up, so that the remainder gets a batch too
NumBatchesCeil(n, B) == (n + B - 1) \div B

\* line 98: range(len(self.data) / self.batch_size), Python 2 floor division
NumBatches(n, B) == n \div B

\* an index that steps by one from batch to batch, not by the batch size
IndexOfOverlapping(k, B, i) == k + i + 1

\* line 103: j = k * self.batch_size + i, as an index from 1 (k, i from 0)
IndexOf(k, B, i) == k * B + i + 1

\* a batch read from the list as __init__ left it, not as it is now
MakeBatchFromLoaded(d, k, B) ==
    LET users  == [i \in 1..B |-> made.data[IndexOf(k, B, i - 1)][1]]
        items  == [i \in 1..B |-> made.data[IndexOf(k, B, i - 1)][2]]
        scores == [i \in 1..B |-> made.data[IndexOf(k, B, i - 1)][3]]
    IN  Batch(<<"user", "item">>, <<users, items>>, <<"score">>, <<scores>>)

\* a batch whose tensors are named in the wrong order
MakeBatchNamesSwapped(d, k, B) ==
    LET users  == [i \in 1..B |-> d[IndexOf(k, B, i - 1)][1]]
        items  == [i \in 1..B |-> d[IndexOf(k, B, i - 1)][2]]
        scores == [i \in 1..B |-> d[IndexOf(k, B, i - 1)][3]]
    IN  Batch(<<"item", "user">>, <<users, items>>, <<"score">>, <<scores>>)

\* lines 99-114: the k-th batch, read from self.data as it is now
MakeBatch(d, k, B) ==
    LET users  == [i \in 1..B |-> d[IndexOf(k, B, i - 1)][1]]
        items  == [i \in 1..B |-> d[IndexOf(k, B, i - 1)][2]]
        scores == [i \in 1..B |-> d[IndexOf(k, B, i - 1)][3]]
    IN  Batch(<<"user", "item">>, <<users, items>>, <<"score">>, <<scores>>)

\* the history when a pass begins: the pass before it is kept if it ran to
\* its end with no reset since it began
PassBegins ==
    LET keep == gen.state = "done" /\ hist.clean
    IN  [ever_reset |-> hist.ever_reset, clean |-> TRUE, prev_valid |-> keep,
         prev |-> IF keep THEN yielded ELSE <<>>]

\* a pass that begins by shuffling the list
IterCallShuffling ==
    /\ status = "ready"
    /\ gen' = [state |-> "created", k |-> 0, n |-> 0]
    /\ yielded' = <<>>
    /\ hist' = PassBegins
    /\ data' \in { [i \in 1..Len(data) |-> data[Len(data) + 1 - i]] }
    /\ UNCHANGED <<fs, status, batch_size, provide_data, provide_label, made,
                   nb_vars, rmse_vars>>

\* line 97: a call of __iter__ returns a new generator; none of its body
\* has run yet
IterCall ==
    /\ status = "ready"
    /\ gen' = [state |-> "created", k |-> 0, n |-> 0]
    /\ yielded' = <<>>
    /\ hist' = PassBegins
    /\ UNCHANGED <<fs, iter_vars, nb_vars, rmse_vars>>

\* lines 98-115: one next() of the generator.  The first one evaluates
\* range(..); each one runs to the next yield or to the end of the loop.
NextCall ==
    /\ gen.state \in {"created", "running"}
    /\ LET n == IF gen.state = "created"
                THEN NumBatches(Len(data), batch_size)
                ELSE gen.n
       IN  IF gen.k < n
           THEN IF \A i \in 0..(batch_size - 1) :
                       IndexOf(gen.k, batch_size, i) \in 1..Len(data)
                THEN /\ yielded' = Append(yielded,
                                          MakeBatch(data, gen.k, batch_size))
                     /\ gen' = [state |-> "running", k |-> gen.k + 1, n |-> n]
                ELSE /\ yielded' = yielded
                     /\ gen' = [state |-> "IndexError", k |-> gen.k, n |-> n]
           ELSE /\ yielded' = yielded
                /\ gen' = [state |-> "done", k |-> gen.k, n |-> n]
    /\ hist' = hist
    /\ UNCHANGED <<fs, iter_vars, nb_vars, rmse_vars>>

\* the one-to-one maps of 1..n onto itself: n put at any place j of a
\* one-to-one map of 1..(n - 1) onto itself
RECURSIVE Bijections(_)
Bijections(n) ==
    IF n = 0 THEN { <<>> }
    ELSE UNION { { [i \in 1..n |-> IF i < j THEN p[i]
                                   ELSE IF i = j THEN n ELSE p[i - 1]] :
                   j \in 1..n } :
                 p \in Bijections(n - 1) }

\* a shuffle that draws every position anew, with replacement
ShufflesWithReplacement(d) ==
    { [i \in 1..Len(d) |-> d[p[i]]] : p \in [1..Len(d) -> 1..Len(d)] }

\* line 118: what random.shuffle(self.data) can leave in the list
Shuffles(d) == { [i \in 1..Len(d) |-> d[p[i]]] : p \in Bijections(Len(d)) }

\* lines 117-118: DataIter.reset
Reset ==
    /\ status = "ready"
    /\ data' \in Shuffles(data)
    /\ hist' = [ever_reset |-> TRUE, clean |-> FALSE, prev_valid |-> FALSE,
                prev |-> <<>>]
    /\ UNCHANGED <<fs, status, batch_size, provide_data, provide_label,
                   made, gen, yielded, nb_vars, rmse_vars>>

----------------------------------------------------------------------------
(* The networks.  A network is the chain of layers on the user input, the  *)
(* chain on the item input, and the chain from their product to the loss.  *)

Variable(name) == [op |-> "Variable", name |-> name]
Embedding(input_dim, output_dim) ==
    [op |-> "Embedding", input_dim |-> input_dim, output_dim |-> output_dim]
Activation(act_type) == [op |-> "Activation", act_type |-> act_type]
FullyConnected(num_hidden) == [op |-> "FullyConnected", num_hidden |-> num_hidden]
Dropout(p) == [op |-> "Dropout", p |-> p]
Mul == [op |-> "_Mul"]
sum_axis(axis) == [op |-> "sum_axis", axis |-> axis]
Flatten == [op |-> "Flatten"]
LinearRegressionOutput(label) == [op |-> "LinearRegressionOutput", label |-> label]

\* lines 357-362, 476-481, 596-601: user * item, sum_axis, Flatten, loss
Pred ==
    <<Mul, sum_axis(1), Flatten, LinearRegressionOutput(Variable("score"))>>

\* a builder that keeps count of the training runs made so far
plain_net_counting(k) ==
    [user |-> <<Variable("user"), Embedding(max_user, k + Cardinality(trained))>>,
     item |-> <<Variable("item"), Embedding(max_item, k + Cardinality(trained))>>,
     pred |-> Pred]

\* lines 348-363: plain_net(k)
plain_net(k) ==
    [user |-> <<Variable("user"), Embedding(max_user, k)>>,
     item |-> <<Variable("item"), Embedding(max_item, k)>>,
     pred |-> Pred]

\* a builder that sizes the user table by the number of items
get_one_layer_mlp_item_dim(hidden, k) ==
    [user |-> <<Variable("user"), Embedding(max_item, k), Activation("relu"),
                FullyConnected(hidden)>>,
     item |-> <<Variable("item"), Embedding(max_item, k), Activation("relu"),
                FullyConnected(hidden)>>,
     pred |-> Pred]

\* lines 463-482: get_one_layer_mlp(hidden, k)
get_one_layer_mlp(hidden, k) ==
    [user |-> <<Variable("user"), Embedding(max_user, k), Activation("relu"),
                FullyConnected(hidden)>>,
     item |-> <<Variable("item"), Embedding(max_item, k), Activation("relu"),
                FullyConnected(hidden)>>,
     pred |-> Pred]

\* lines 581-602: get_one_layer_dropout_mlp(hidden, k)
get_one_layer_dropout_mlp(hidden, k) ==
    [user |-> <<Variable("user"), Embedding(max_user, k), Activation("relu"),
                FullyConnected(hidden), Dropout("0.5")>>,
     item |-> <<Variable("item"), Embedding(max_item, k), Activation("relu"),
                FullyConnected(hidden), Dropout("0.5")>>,
     pred |-> Pred]

\* the builder calls the model makes: those of the notebook, and the
\* dropout builder with the arguments of the cell that defines it
Calls ==
    { <<"plain_net", <<64>> >>,
      <<"get_one_layer_mlp", <<64, 64>> >>,
      <<"get_one_layer_mlp", <<256, 512>> >>,
      <<"get_one_layer_dropout_mlp", <<256, 512>> >> }

\* what the call c returns in the current state
Returned(c) ==
    CASE c[1] = "plain_net" -> plain_net(c[2][1])
      [] c[1] = "get_one_layer_mlp" -> get_one_layer_mlp(c[2][1], c[2][2])
      [] c[1] = "get_one_layer_dropout_mlp" ->
             get_one_layer_dropout_mlp(c[2][1], c[2][2])

NoNet == [user |-> <<>>, item |-> <<>>, pred |-> <<>>]

\* the record of the call c: the network it returned last, and whether it
\* was first made before any train call ("early") or after one ("late"),
\* or made early and again after a train call ("again")
Recorded(c) ==
    [built EXCEPT ![c] =
        [net   |-> Returned(c),
         calls |-> IF @.calls = "none"
                   THEN (IF trained = {} THEN "early" ELSE "late")
                   ELSE IF @.calls = "early" /\ trained # {} THEN "again"
                   ELSE @.calls]]

\* a cell of its own that calls a builder: NameError unless the builder, and
\* the max_user and max_item it reads, are defined
BuilderCall(c) ==
    /\ c[1] \in defined
    /\ max_user # 0
    /\ built' = Recorded(c)
    /\ UNCHANGED <<fs, iter_vars, gen_vars, max_user, max_item, max_id_status,
                   defined, trained, rmse_vars>>

\* the cell that defines train (lines 230-249)
TrainCell ==
    /\ defined' = defined \cup {"train"}
    /\ UNCHANGED <<fs, iter_vars, gen_vars, max_user, max_item, max_id_status,
                   built, trained, rmse_vars>>

\* a cell that defines the builder fn and then runs train(c), c a builder
\* call (lines 348-365, 463-484, 581-603).  The def always takes effect.
\* train, the called builder, max_user and max_item must be defined, or the
\* statement ends in NameError before train is entered.  train (lines
\* 230-249) sets batch_size = 64 and makes the iterators with get_data;
\* FeedForward.fit then drives the train iterator: IterCall, NextCall, Reset.
NetCell(cell, fn, c) ==
    /\ defined' = defined \cup {fn}
    /\ IF "train" \in defined /\ c[1] \in defined' /\ max_user # 0
       THEN /\ built' = Recorded(c)
            /\ trained' = trained \cup {[cell |-> cell, network |-> Returned(c)]}
            /\ Observe("u1.base", get_data(64))
       ELSE UNCHANGED <<built, trained, iter_vars, gen_vars>>
    /\ UNCHANGED <<fs, max_user, max_item, max_id_status, rmse_vars>>

\* lines 347-365: "We first learn the latent vectors directly"
Cell7 == NetCell(7, "plain_net", <<"plain_net", <<64>> >>)

\* lines 462-484: "Next we try to use 2 layers neural network"
Cell8 == NetCell(8, "get_one_layer_mlp", <<"get_one_layer_mlp", <<64, 64>> >>)

\* lines 580-603: "Adding dropout layers to relief the over-fitting"
Cell9 ==
    NetCell(9, "get_one_layer_dropout_mlp", <<"get_one_layer_mlp", <<256, 512>> >>)

----------------------------------------------------------------------------
(* RMSE.  Its result is math.sqrt(ret / n); the model keeps the two        *)
(* accumulators, that is the value under the square root as a fraction.    *)

\* pred.flatten(): the rows of a two-axis array, one after the other
RECURSIVE flatten(_)
flatten(m) == IF m = <<>> THEN <<>> ELSE Head(m) \o flatten(Tail(m))

\* an error term that is not squared
SignedErr(a, b) == a - b

\* line 210: (label[i] - pred[i]) * (label[i] - pred[i])
SqErr(a, b) == (a - b) * (a - b)

\* lines 209-211: the loop from index i (from 1) on, pred being flattened
RECURSIVE RMSELoop(_, _, _, _, _)
RMSELoop(label, pred, i, ret, n) ==
    IF i > Len(label) THEN [raised |-> "no", ret |-> ret, n |-> n]
    ELSE IF i > Len(pred) THEN [raised |-> "IndexError", ret |-> ret, n |-> n]
    ELSE RMSELoop(label, pred, i + 1, ret + SqErr(label[i], pred[i]), n + 1)

\* lines 205-212: RMSE(label, pred); ret / n raises when n is 0.0
RMSE(label, pred) ==
    LET r == RMSELoop(label, flatten(pred), 1, 0, 0)
    IN  IF r.raised = "no" /\ r.n = 0
        THEN [raised |-> "ZeroDivisionError", ret |-> r.ret, n |-> r.n]
        ELSE r

\* a call of RMSE on the arguments drawn
RMSECall ==
    /\ rmse_out.raised = "none"
    /\ rmse_out' = RMSE(rmse_in.label, rmse_in.pred)
    /\ UNCHANGED <<fs, iter_vars, gen_vars, nb_vars, rmse_in>>

\* the values of the labels and predictions drawn
RmseValues == {0, 1, 3}

\* label vectors of at most n entries
Labels(n) == UNION { [1..k -> RmseValues] : k \in 0..n }

\* prediction arrays of one or two columns, at most n + 1 entries in all
Preds(n) ==
    UNION { [1..sh[1] -> [1..sh[2] -> RmseValues]] :
            sh \in { sh \in (0..(n + 1)) \X (1..2) : sh[1] * sh[2] <= n + 1 } }

----------------------------------------------------------------------------
(* The specifications. *)

\* the kernel after the cells that only define Batch, DataIter, get_data
\* (unpacking the archive) and RMSE (lines 35-48, 66-118, 136-144, 204-212)
Fresh ==
    /\ status = "none"
    /\ batch_size = 0
    /\ data = <<>>
    /\ provide_data = <<>>
    /\ provide_label = <<>>
    /\ made = [fname |-> NoFile, batch_size |-> 0, data |-> <<>>,
               provide_data |-> <<>>, provide_label |-> <<>>]
    /\ gen = [state |-> "none", k |-> 0, n |-> 0]
    /\ yielded = <<>>
    /\ hist = NoHistory
    /\ max_user = 0
    /\ max_item = 0
    /\ max_id_status = "none"
    /\ defined = {"Batch", "DataIter", "get_data", "RMSE"}
    /\ built = [c \in Calls |-> [net |-> NoNet, calls |-> "none"]]
    /\ trained = {}
    /\ rmse_out = [raised |-> "none", ret |-> 0, n |-> 0]

\* the loader: files with malformed rows, one DataIter made of one of them,
\* one pass over what was loaded
InitLoad ==
    /\ fs \in Disks(LoadLines, MaxLoadLines)
    /\ rmse_in = [label |-> <<>>, pred |-> <<>>]
    /\ Fresh

NextLoad ==
    \/ /\ status = "none"
       /\ \E fname \in FileNames \cup {NoFile}, B \in 1..MaxLoadBatch :
              DataIterInit(fname, B)
    \/ MaxIdCell
    \/ IterCall
    \/ NextCall

SpecLoad == InitLoad /\ [][NextLoad]_vars

\* the iterator: one DataIter, its passes and resets in any interleaving, on
\* the disks whose training part is all of u.data
Init ==
    /\ fs \in { d \in Disks(IterLines, MaxIterLines) : d["u1.test"] = <<>> }
    /\ rmse_in = [label |-> <<>>, pred |-> <<>>]
    /\ Fresh

Next ==
    \/ /\ status = "none"
       /\ \E fname \in FileNames \cup {NoFile}, B \in 1..MaxBatch :
              DataIterInit(fname, B)
    \/ IterCall
    \/ NextCall
    \/ Reset

Spec == Init /\ [][Next]_vars

\* the notebook: its cells in any order, builder calls in cells of their
\* own, and the passes and resets of the train iterator.  The builders read
\* only max_user and max_item, so u.data has at most two lines here, all
\* of them in u1.base.
InitNet ==
    /\ fs \in { d \in Disks(IterLines, 2) : d["u1.test"] = <<>> }
    /\ rmse_in = [label |-> <<>>, pred |-> <<>>]
    /\ Fresh

NextNet ==
    \/ MaxIdCell
    \/ TrainCell
    \/ Cell7
    \/ Cell8
    \/ Cell9
    \/ \E c \in Calls : BuilderCall(c)
    \/ IterCall
    \/ NextCall
    \/ Reset

SpecNet == InitNet /\ [][NextNet]_vars

\* the metric: RMSE applied to every label vector and prediction array
InitRMSE ==
    /\ fs \in Disks(IterLines, 0)
    /\ rmse_in \in [label : Labels(MaxLabel), pred : Preds(MaxLabel)]
    /\ Fresh

NextRMSE == RMSECall

SpecRMSE == InitRMSE /\ [][NextRMSE]_vars

----------------------------------------------------------------------------
(* What the claims are stated with. *)

Range(q) == { q[i] : i \in 1..Len(q) }

Count(q, x) == Cardinality({ i \in 1..Len(q) : q[i] = x })

\* the same elements, each as often
SameBag(a, b) ==
    /\ Len(a) = Len(b)
    /\ \A x \in Range(a) \cup Range(b) : Count(a, x) = Count(b, x)

\* the number of tab characters of a string
TabCount(q) == Cardinality({ i \in 1..Len(q) : q[i] = "\t" })

\* a line that has exactly four tab-separated fields once stripped
FourFields(l) == TabCount(strip(l)) = 3

\* the four-field lines of a file, in file order
FourFieldRows(f) == SelectSeq(f, FourFields)

----------------------------------------------------------------------------
(* C1: a finished pass over N tuples with batch size B >= 1 has yielded    *)
(* exactly floor(N / B) batches, and every batch yielded holds exactly B   *)
(* users, B items and B scores; there is no short final batch and no index *)
(* out of range.                                                           *)
C1_FixedSizeSlices ==
    status = "ready" =>
        /\ \A j \in 1..Len(yielded) :
               /\ Len(yielded[j].data) = 2
               /\ Len(yielded[j].label) = 1
               /\ Len(yielded[j].data[1]) = batch_size
               /\ Len(yielded[j].data[2]) = batch_size
               /\ Len(yielded[j].label[1]) = batch_size
        /\ gen.state # "IndexError"
        /\ Len(yielded) * batch_size <= Len(data)
        /\ gen.state = "done" =>
               Len(data) < (Len(yielded) + 1) * batch_size

\* a finished pass that yielded a batch and left a remainder out
C1_Witness ==
    /\ gen.state = "done"
    /\ Len(yielded) >= 1
    /\ Len(data) % batch_size # 0

(* C2: after DataIter.__init__ has returned, self.data holds, in file      *)
(* order, one tuple (int(field0), int(field1), float(field2)) per line     *)
(* that has exactly four tab-separated fields once stripped, and nothing   *)
(* else; the fourth field is not stored.                                   *)
C2_LoadedTuples ==
    status = "ready" =>
        LET rows == FourFieldRows(fs[made.fname])
        IN  /\ Len(made.data) = Len(rows)
            /\ \A j \in 1..Len(rows) :
                   LET tks == split(strip(rows[j]), "\t")
                   IN  /\ Len(made.data[j]) = 3
                       /\ made.data[j][1] = int(tks[1])
                       /\ made.data[j][2] = int(tks[2])
                       /\ made.data[j][3] = float(tks[3])

\* a two-line file of which one line was loaded and the other skipped
C2_Witness ==
    /\ status = "ready"
    /\ Len(fs[made.fname]) = 2
    /\ Len(made.data) = 1
    /\ made.data[1] = <<12, 3, 1>>

(* C3: loading never fails on the content of a file: neither               *)
(* DataIter.__init__ nor max_id ends in an error other than file not       *)
(* found.                                                                  *)
C3_MalformedLineSkipped ==
    /\ status \in {"none", "ready", "IOError"}
    /\ max_id_status \in {"none", "ok", "IOError"}

(* C4: after any resets and passes, self.data has the length and the       *)
(* multiset of tuples it had when __init__ returned, and batch_size,       *)
(* provide_data and provide_label are what __init__ set.                   *)
C4_ResetOnlyPermutes ==
    status = "ready" =>
        /\ SameBag(data, made.data)
        /\ batch_size = made.batch_size
        /\ provide_data = made.provide_data
        /\ provide_label = made.provide_label

\* a pass finished on a list that reset has reordered
C4_Witness ==
    /\ status = "ready"
    /\ gen.state = "done"
    /\ Len(yielded) >= 1
    /\ data # made.data

(* C5: every batch yielded declares the names and shapes the iterator      *)
(* declares: provide_data is [('user', (B,)), ('item', (B,))] and          *)
(* provide_label is [('score', (B,))].                                     *)
C5_NamedTensors ==
    status = "ready" =>
        \A j \in 1..Len(yielded) :
            /\ BatchProvideData(yielded[j]) =
                   << <<"user", <<batch_size>> >>, <<"item", <<batch_size>> >> >>
            /\ BatchProvideLabel(yielded[j]) = << <<"score", <<batch_size>> >> >>
            /\ BatchProvideData(yielded[j]) = provide_data
            /\ BatchProvideLabel(yielded[j]) = provide_label

\* a batch of more than one tuple has been yielded
C5_Witness ==
    /\ status = "ready"
    /\ Len(yielded) >= 1
    /\ batch_size >= 2

\* the user ids (c = 1) or item ids (c = 2) of the four-field lines of f
IdsOf(f, c) ==
    { int(split(strip(l), "\t")[c]) : l \in Range(FourFieldRows(f)) }

\* m is one more than the largest of ids, and 1 when no id is positive
OneMoreThanLargest(m, ids) ==
    /\ m >= 1
    /\ \A u \in ids : u < m
    /\ m = 1 \/ (m - 1) \in ids

(* C6: when max_id returns, max_user and max_item are one more than the    *)
(* largest user and item id of the four-field lines of u.data, and at      *)
(* least 1; every non-negative id of a batch built from a file of the      *)
(* split is below max_user (max_item), so it indexes the Embedding.        *)
C6_MaxIdBoundsIds ==
    max_id_status = "ok" =>
        /\ OneMoreThanLargest(max_user, IdsOf(fs["u.data"], 1))
        /\ OneMoreThanLargest(max_item, IdsOf(fs["u.data"], 2))
        /\ status = "ready" =>
               \A j \in 1..Len(yielded) :
                   \A i \in 1..Len(yielded[j].data[1]) :
                       /\ yielded[j].data[1][i] >= 0 =>
                              yielded[j].data[1][i] < max_user
                       /\ yielded[j].data[2][i] >= 0 =>
                              yielded[j].data[2][i] < max_item

\* a batch carrying the largest user id has been yielded
C6_Witness ==
    /\ max_id_status = "ok"
    /\ status = "ready"
    /\ max_user >= 3
    /\ \E j \in 1..Len(yielded) : yielded[j].data[1][1] = max_user - 1

\* the sum of f[i] over the indices i of S
RECURSIVE SumOver(_, _)
SumOver(S, f) ==
    IF S = {} THEN 0
    ELSE LET i == CHOOSE i \in S : TRUE IN f[i] + SumOver(S \ {i}, f)

(* C7: for a label of n >= 1 entries and a pred that flattens to at least  *)
(* n entries, RMSE returns; the value under the root is the sum of         *)
(* (label[i] - pred[i])^2 over the first n positions divided by n; it is 0 *)
(* exactly when label and pred agree on those positions; and it is the     *)
(* same with label[i] and pred[i] swapped.                                 *)
C7_RootMeanSquare ==
    LET label == rmse_in.label
        flat  == flatten(rmse_in.pred)
        n     == Len(label)
        first == SubSeq(flat, 1, n)
    IN  (rmse_out.raised # "none" /\ n >= 1 /\ Len(flat) >= n) =>
            /\ rmse_out.raised = "no"
            /\ rmse_out.n = n
            /\ rmse_out.ret =
                   SumOver(1..n, [i \in 1..n |->
                                      (label[i] - flat[i]) * (label[i] - flat[i])])
            /\ rmse_out.ret >= 0
            /\ rmse_out.ret = 0 <=> \A i \in 1..n : label[i] = flat[i]
            /\ RMSE(first, <<label>>) = rmse_out

\* a non-zero error over two positions of a three-entry prediction
C7_Witness ==
    /\ rmse_out.raised = "no"
    /\ rmse_out.n = 2
    /\ rmse_out.ret > 0
    /\ Len(flatten(rmse_in.pred)) = 3
    /\ rmse_in.label[1] > rmse_in.pred[1][1]

\* every FullyConnected layer of the chain is followed by Dropout(p=0.5),
\* and there is one
DropoutAfterEachFC(chain) ==
    /\ \E i \in 1..Len(chain) : chain[i].op = "FullyConnected"
    /\ \A i \in 1..Len(chain) :
           chain[i].op = "FullyConnected" =>
               i < Len(chain) /\ chain[i + 1] = [op |-> "Dropout", p |-> "0.5"]

(* C8: every training run started by the cell headed "Adding dropout       *)
(* layers" is given a network with Dropout(p=0.5) after each               *)
(* FullyConnected layer, on the user side and on the item side.            *)
C8_DropoutCellTrainsDropout ==
    \A t \in trained :
        t.cell = 9 =>
            /\ DropoutAfterEachFC(t.network.user)
            /\ DropoutAfterEachFC(t.network.item)

\* the functions defined so far that are not the data, metric or training code
NetworkBuilders ==
    defined \ {"Batch", "DataIter", "get_data", "max_id", "RMSE", "train"}

\* the three network cells have each run their training
AllNetCellsRun == { t.cell : t \in trained } = {7, 8, 9}

\* the layers of a chain after its input and its Embedding
Extra(chain) == SubSeq(chain, 3, Len(chain))

\* the chain without its Dropout layers
RECURSIVE NoDropout(_)
NoDropout(chain) ==
    IF chain = <<>> THEN <<>>
    ELSE IF Head(chain).op = "Dropout" THEN NoDropout(Tail(chain))
    ELSE <<Head(chain)>> \o NoDropout(Tail(chain))

\* the network returned for the call c has the common shape: inputs 'user'
\* and 'item', Embeddings of input_dim max_user and max_item with the same
\* output_dim k, the same further layers on both sides, and the product,
\* sum over axis 1, Flatten and LinearRegressionOutput against 'score'
CommonShape(c) ==
    LET net == built[c].net
        k   == c[2][Len(c[2])]
    IN  /\ Len(net.user) >= 2
        /\ Len(net.item) >= 2
        /\ net.user[1] = [op |-> "Variable", name |-> "user"]
        /\ net.item[1] = [op |-> "Variable", name |-> "item"]
        /\ net.user[2] = [op |-> "Embedding", input_dim |-> max_user,
                          output_dim |-> k]
        /\ net.item[2] = [op |-> "Embedding", input_dim |-> max_item,
                          output_dim |-> k]
        /\ Extra(net.user) = Extra(net.item)
        /\ \A i \in 1..Len(Extra(net.user)) :
               Extra(net.user)[i].op \in {"Activation", "FullyConnected", "Dropout"}
        /\ net.pred = << [op |-> "_Mul"], [op |-> "sum_axis", axis |-> 1],
                         [op |-> "Flatten"],
                         [op |-> "LinearRegressionOutput",
                          label |-> [op |-> "Variable", name |-> "score"]] >>

\* every network built so far has the common shape, and the builders differ
\* only in layer count and dropout: the dropout network without its Dropout
\* layers is the network of get_one_layer_mlp for the same arguments
BuildersAlike ==
    /\ \A c \in Calls : built[c].calls # "none" => CommonShape(c)
    /\ \A c, d \in Calls :
           (/\ built[c].calls # "none"
            /\ built[d].calls # "none"
            /\ c[1] = "get_one_layer_dropout_mlp"
            /\ d[1] = "get_one_layer_mlp"
            /\ c[2] = d[2]) =>
               /\ NoDropout(built[c].net.user) = built[d].net.user
               /\ NoDropout(built[c].net.item) = built[d].net.item
               /\ built[c].net.user # built[d].net.user

(* C9 as written: the notebook defines four network-definition functions,  *)
(* alike but for layer count and dropout.                                  *)
C9_FourBuilders ==
    /\ BuildersAlike
    /\ AllNetCellsRun => Cardinality(NetworkBuilders) = 4

(* C9, amended: the notebook defines three network-definition functions    *)
(* (plain_net, get_one_layer_mlp, get_one_layer_dropout_mlp); each takes   *)
(* 'user', 'item' and the label 'score', looks both ids up in Embeddings   *)
(* of input_dim max_user and max_item with the same output_dim k, scores   *)
(* by product, sum over axis 1 and Flatten, and ends in                    *)
(* LinearRegressionOutput; they differ only in layer count and dropout.    *)
C9_ThreeBuilders ==
    /\ BuildersAlike
    /\ AllNetCellsRun =>
           NetworkBuilders =
               {"plain_net", "get_one_layer_mlp", "get_one_layer_dropout_mlp"}

\* all cells have run and every builder has been called
C9_Witness ==
    /\ AllNetCellsRun
    /\ \A c \in Calls : built[c].calls # "none"

(* C10: a builder call in a cell of its own writes nothing but its result  *)
(* (no notebook-level variable, no DataIter field, no generator), and a    *)
(* call returns the network every earlier call with the same arguments     *)
(* returned, whatever cells, train calls, resets or passes came between.   *)
C10_BuildersStateless ==
    [][ /\ \A c \in Calls :
               built[c].calls # "none" => built'[c].net = built[c].net
        /\ (\E c \in Calls : BuilderCall(c)) =>
               UNCHANGED <<fs, iter_vars, gen_vars, max_user, max_item,
                           max_id_status, defined, trained, rmse_vars>>
      ]_vars

\* a builder called before any training run and again after one, a finished
\* pass and a reset that reordered the list
C10_Witness ==
    /\ \E c \in Calls : built[c].calls = "again"
    /\ gen.state = "done"
    /\ data # made.data

\* the (user, item, score) entries of the batches ys of size B, batch after
\* batch and, within a batch, position after position
YieldedTuples(ys, B) ==
    [j \in 1..(Len(ys) * B) |->
        LET b == ys[((j - 1) \div B) + 1]
            i == ((j - 1) % B) + 1
        IN  <<b.data[1][i], b.data[2][i], b.label[1][i]>>]

(* C11: while reset has not been called since the pass began, position i   *)
(* of the k-th batch yielded (k, i from 0) carries the user, the item and  *)
(* the score of the one tuple at index k*B + i of the list, so the batches *)
(* yielded so far are the first Len(yielded)*B tuples in list order, each  *)
(* index once; a pass that ran to its end leaves out the last N mod B      *)
(* tuples and no other.                                                    *)
C11_ContiguousAlignedSlices ==
    (status = "ready" /\ hist.clean) =>
        /\ \A k \in 0..(Len(yielded) - 1) : \A i \in 0..(batch_size - 1) :
               /\ k * batch_size + i + 1 \in 1..Len(data)
               /\ yielded[k + 1].data[1][i + 1] =
                      data[k * batch_size + i + 1][1]
               /\ yielded[k + 1].data[2][i + 1] =
                      data[k * batch_size + i + 1][2]
               /\ yielded[k + 1].label[1][i + 1] =
                      data[k * batch_size + i + 1][3]
        /\ Len(yielded) * batch_size <= Len(data)
        /\ YieldedTuples(yielded, batch_size) =
               SubSeq(data, 1, Len(yielded) * batch_size)
        /\ gen.state = "done" =>
               Len(yielded) * batch_size =
                   Len(data) - (Len(data) % batch_size)

\* a pass with no reset in it that ran to its end and yielded two batches of
\* more than one tuple each from a list reset had reordered before the pass
C11_Witness ==
    /\ status = "ready"
    /\ hist.clean
    /\ gen.state = "done"
    /\ Len(yielded) >= 2
    /\ batch_size >= 2
    /\ hist.ever_reset

\* the tuples of the four-field lines of the file f, in file order
FileOrderTuples(f) ==
    LET rows == FourFieldRows(f)
    IN  [j \in 1..Len(rows) |->
            LET tks == split(strip(rows[j]), "\t")
            IN  <<int(tks[1]), int(tks[2]), float(tks[3])>>]

(* C12: neither a call of __iter__ nor a step of its generator changes     *)
(* self.data; as long as reset has never been called the batches yielded   *)
(* carry the tuples in file order; and a pass that ran to its end yields   *)
(* the very batches the pass before it yielded, when that pass ran to its  *)
(* end too and reset was not called since it began.                        *)
C12_OrderOnlyThroughReset ==
    /\ [][ (IterCall \/ NextCall) =>
             UNCHANGED <<data, batch_size, provide_data, provide_label>> ]_vars
    /\ []( (status = "ready" /\ ~hist.ever_reset) =>
             /\ Len(yielded) * batch_size <= Len(FileOrderTuples(fs[made.fname]))
             /\ YieldedTuples(yielded, batch_size) =
                    SubSeq(FileOrderTuples(fs[made.fname]), 1,
                           Len(yielded) * batch_size) )
    /\ []( (status = "ready" /\ hist.prev_valid /\ hist.clean
                /\ gen.state = "done") =>
             yielded = hist.prev )

\* two passes of two batches each that ran to their ends, one after the
\* other, on a file with a line that was skipped, reset never called
C12_Witness ==
    /\ status = "ready"
    /\ ~hist.ever_reset
    /\ hist.prev_valid
    /\ hist.clean
    /\ gen.state = "done"
    /\ Len(hist.prev) = 2
    /\ Len(yielded) = 2
    /\ Len(fs[made.fname]) > Len(data)

(* C13: the number of batches of a pass is floor(N / B), whatever resets   *)
(* fall inside the pass, every batch has exactly B entries and no index is *)
(* out of range; but each batch is read from self.data as it is at the     *)
(* moment of the yield: entry i of the batch yielded k-th is the tuple at  *)
(* index k*B + i of the list as reset last left it, not as it was when the *)
(* pass began.                                                             *)
C13_LazyRead ==
    /\ []( status = "ready" =>
             /\ gen.state \in {"running", "done"} =>
                    gen.n = Len(data) \div batch_size
             /\ gen.state = "done" =>
                    Len(yielded) = Len(data) \div batch_size
             /\ Len(yielded) <= Len(data) \div batch_size
             /\ gen.state # "IndexError"
             /\ \A j \in 1..Len(yielded) :
                    /\ Len(yielded[j].data[1]) = batch_size
                    /\ Len(yielded[j].data[2]) = batch_size
                    /\ Len(yielded[j].label[1]) = batch_size
             /\ Range(YieldedTuples(yielded, batch_size)) \subseteq Range(data) )
    /\ [][ (NextCall /\ Len(yielded') = Len(yielded) + 1) =>
             /\ SubSeq(yielded', 1, Len(yielded)) = yielded
             /\ \A i \in 1..batch_size :
                    /\ gen.k * batch_size + i \in 1..Len(data)
                    /\ YieldedTuples(yielded', batch_size)
                            [Len(yielded) * batch_size + i] =
                           data[gen.k * batch_size + i] ]_vars

\* a pass over a list of distinct tuples that ran to its end with a reset
\* inside it, yielded one tuple twice and left out more than N mod B tuples
C13_Witness ==
    /\ status = "ready"
    /\ gen.state = "done"
    /\ ~hist.clean
    /\ \A i, j \in 1..Len(data) : data[i] = data[j] => i = j
    /\ LET yt == YieldedTuples(yielded, batch_size)
       IN  /\ \E i, j \in 1..Len(yt) : i < j /\ yt[i] = yt[j]
           /\ Cardinality({ i \in 1..Len(data) : data[i] \notin Range(yt) })
                  > Len(data) % batch_size

====
